---- MODULE Spec2Model ----
(***************************************************************************)
(* Model of src/quickhull.cpp: the steppable QuickHull (class QuickHull)   *)
(* and the SFML main loop that drives it (USE_SFML == 1, line 19).         *)
(*                                                                         *)
(* A Point is a record [x, y].  A StepData object is a record; the heap of *)
(* StepData objects of the current computation is the function `nodes`     *)
(* from node identities to records.  A node identity is the path from the  *)
(* root (<<>>), 1 for recursiveOne and 2 for recursiveTwo; the null        *)
(* shared_ptr is Null.                                                     *)
(***************************************************************************)
EXTENDS Integers, Sequences, FiniteSets, TLC

\* ------------------------------------------------------------------------
\* Bounds of the model (the program uses a 1280x720 window, 1000 points).
\* ------------------------------------------------------------------------
windowWidth == 5
windowHeight == 5
windowMargin == 1
MaxPointCount == 4
MaxRestarts == 1

pointXmax == windowWidth - (windowMargin * 2)
pointYmax == windowHeight - (windowMargin * 2)

\* values of rand() % pointXmax + windowMargin, rand() % pointYmax + windowMargin
Points == [x : windowMargin .. (windowMargin + pointXmax - 1),
           y : windowMargin .. (windowMargin + pointYmax - 1)]

\* an indeterminate Point (a member that has not been assigned yet)
NoPoint == [x |-> -1, y |-> -1]

Null == <<0>>
Root == <<>>

SDP_RecurseOne == "SDP_RecurseOne"
SDP_RecurseTwo == "SDP_RecurseTwo"
SDP_Done == "SDP_Done"
SDP_FirstIteration == "SDP_FirstIteration"

\* ------------------------------------------------------------------------
\* Pure functions of class QuickHull
\* ------------------------------------------------------------------------

\* the comparator of both std::sort calls on point lists (lines 153, 244, 247)
PointLess(left, right) ==
    (left.x < right.x) \/ (left.x = right.x /\ left.y < right.y)

RECURSIVE InsertSorted(_, _)
InsertSorted(p, s) ==
    IF s = <<>> THEN <<p>>
    ELSE IF PointLess(p, Head(s)) THEN <<p>> \o s
    ELSE <<Head(s)>> \o InsertSorted(p, Tail(s))

\* std::sort with PointLess: elements that compare equivalent are equal
\* points, so the result is unique
RECURSIVE SortPoints(_)
SortPoints(s) ==
    IF s = <<>> THEN <<>> ELSE InsertSorted(Head(s), SortPoints(Tail(s)))

comparePoints(lhs, rhs) == lhs.x = rhs.x /\ lhs.y = rhs.y

\* the determinant of lines 197 and 220 (no int overflow: coordinates are
\* below 1280, every product below 2^21)
Determinant(A, B, C) ==
    (A.x * B.y) + (C.x * A.y) + (B.x * C.y) - (C.x * B.y) - (B.x * A.y) - (A.x * C.y)

Abs(n) == IF n < 0 THEN -n ELSE n

calcPointsOnRightSide_KeepCollinear(begin, end, list) ==
    SelectSeq(list, LAMBDA p :
        /\ ~(comparePoints(p, begin) \/ comparePoints(p, end))
        /\ Determinant(begin, end, p) <= 0)

calcPointsOnRightSide_KeepEndpoints(begin, end, list) ==
    SelectSeq(list, LAMBDA p : Determinant(begin, end, p) <= 0)

calcPointsOnRightSide(begin, end, list) ==
    SelectSeq(list, LAMBDA p :
        /\ ~(comparePoints(p, begin) \/ comparePoints(p, end))
        /\ Determinant(begin, end, p) < 0)

\* the loop of calculateFurthestPoint, from index x with the running maximum
RECURSIVE FurthestLoop(_, _, _, _, _, _)
FurthestLoop(segmentA, segmentB, list, x, prevMax, furthest) ==
    IF x > Len(list) THEN furthest
    ELSE LET determinant == Abs(Determinant(segmentA, segmentB, list[x]))
         IN IF determinant > prevMax
            THEN FurthestLoop(segmentA, segmentB, list, x + 1, determinant, list[x])
            ELSE FurthestLoop(segmentA, segmentB, list, x + 1, prevMax, furthest)

calculateFurthestPoint_NoAbs(segmentA, segmentB, list) ==
    LET d(i) == Determinant(segmentA, segmentB, list[i])
        best == CHOOSE i \in 1 .. Len(list) :
                    \A j \in 1 .. Len(list) : d(i) > d(j) \/ (d(i) = d(j) /\ i <= j)
    IN IF d(best) > -1 THEN list[best] ELSE list[1]

calculateFurthestPoint_Nearest(segmentA, segmentB, list) ==
    LET d(i) == Abs(Determinant(segmentA, segmentB, list[i]))
        best == CHOOSE i \in 1 .. Len(list) :
                    \A j \in 1 .. Len(list) : d(i) < d(j) \/ (d(i) = d(j) /\ i <= j)
    IN list[best]

calculateFurthestPoint(segmentA, segmentB, list) ==
    FurthestLoop(segmentA, segmentB, list, 1, -1, list[1])

\* ------------------------------------------------------------------------
\* The StepData heap
\* ------------------------------------------------------------------------

StepData(pointSet, segmentA, segmentB, progress, prevStep) ==
    [pointSet |-> pointSet, segmentA |-> segmentA, segmentB |-> segmentB,
     progress |-> progress, recursiveOne |-> Null, recursiveTwo |-> Null,
     prevStep |-> prevStep]

\* number of shared_ptr that hold node n: the members of the objects in the
\* heap h and the QuickHull member nextStep (cursor)
RefCount(h, cursor, n) ==
    (IF cursor = n THEN 1 ELSE 0)
    + Cardinality({m \in DOMAIN h : h[m].recursiveOne = n})
    + Cardinality({m \in DOMAIN h : h[m].recursiveTwo = n})
    + Cardinality({m \in DOMAIN h : h[m].prevStep = n})

\* shared_ptr destruction: an object nobody holds is destroyed, which drops
\* the references it held
RECURSIVE Release(_, _)
Release(h, cursor) ==
    LET dead == {n \in DOMAIN h : RefCount(h, cursor, n) = 0}
    IN IF dead = {} THEN h
       ELSE Release([n \in (DOMAIN h) \ dead |-> h[n]], cursor)

prepareNextRecursion_LeftFirst(h, currentStep, P, Q, C) ==
    LET leftId == Append(currentStep, 2)
        rightId == Append(currentStep, 1)
        leftStep == StepData(SortPoints(calcPointsOnRightSide(P, C, h[currentStep].pointSet)),
                             P, C, SDP_RecurseOne, currentStep)
        rightStep == StepData(SortPoints(calcPointsOnRightSide(C, Q, h[currentStep].pointSet)),
                              C, Q, SDP_RecurseOne, currentStep)
        h1 == [n \in (DOMAIN h) \cup {leftId, rightId} |->
                  IF n = leftId THEN leftStep
                  ELSE IF n = rightId THEN rightStep
                  ELSE h[n]]
    IN [h1 EXCEPT ![currentStep].recursiveOne = leftId,
                  ![currentStep].recursiveTwo = rightId]

\* prepareNextRecursion: the heap after the call on node currentStep
prepareNextRecursion(h, currentStep, P, Q, C) ==
    LET leftId == Append(currentStep, 2)
        rightId == Append(currentStep, 1)
        leftStep == StepData(SortPoints(calcPointsOnRightSide(P, C, h[currentStep].pointSet)),
                             P, C, SDP_RecurseOne, currentStep)
        rightStep == StepData(SortPoints(calcPointsOnRightSide(C, Q, h[currentStep].pointSet)),
                              C, Q, SDP_RecurseOne, currentStep)
        h1 == [n \in (DOMAIN h) \cup {leftId, rightId} |->
                  IF n = leftId THEN leftStep
                  ELSE IF n = rightId THEN rightStep
                  ELSE h[n]]
    IN [h1 EXCEPT ![currentStep].recursiveOne = rightId,
                  ![currentStep].recursiveTwo = leftId]


\* ------------------------------------------------------------------------
\* QuickHull::randomizeInput and QuickHull::step as functions of the object
\* ------------------------------------------------------------------------

\* the point lists rand() can produce, before the sort of line 153
RawInputs == UNION {[1 .. n -> Points] : n \in 1 .. MaxPointCount}

newComputation_RootAsRecurseOne(generated) ==
    LET sorted == SortPoints(generated)
        minP == sorted[1]
        maxP == sorted[Len(sorted)]
        root == StepData(sorted, minP, maxP, SDP_RecurseOne, Null)
        h0 == [n \in {Root} |-> root]
    IN [basePointList |-> sorted,
        minPoint |-> minP,
        maxPoint |-> maxP,
        nodes |-> prepareNextRecursion(h0, Root, minP, minP, maxP)]

\* randomizeInput, lines 141-167: what the call computes from the points it
\* generated: the sorted list, its extremes, and the root StepData with its
\* two prepared children
newComputation(generated) ==
    LET sorted == SortPoints(generated)
        minP == sorted[1]
        maxP == sorted[Len(sorted)]
        root == StepData(sorted, minP, maxP, SDP_FirstIteration, Null)
        h0 == [n \in {Root} |-> root]
    IN [basePointList |-> sorted,
        minPoint |-> minP,
        maxPoint |-> maxP,
        nodes |-> prepareNextRecursion(h0, Root, minP, minP, maxP)]

randomizeInput_NoClear(q, c) ==
    [basePointList |-> c.basePointList,
     hullPoints |-> Append(Append(q.hullPoints, c.minPoint), c.maxPoint),
     nextStep |-> Root,
     nodes |-> c.nodes,
     minPoint |-> c.minPoint,
     maxPoint |-> c.maxPoint,
     center |-> [x |-> windowWidth \div 2, y |-> windowHeight \div 2],
     furthestStore |-> q.furthestStore]

\* randomizeInput: the members of the QuickHull object q after the call that
\* computed c.  hullPoints is cleared (line 139) and gets the two extremes
\* (lines 170-171); furthestStore is not assigned.
randomizeInput(q, c) ==
    [basePointList |-> c.basePointList,
     hullPoints |-> Append(Append(<<>>, c.minPoint), c.maxPoint),
     nextStep |-> Root,
     nodes |-> c.nodes,
     minPoint |-> c.minPoint,
     maxPoint |-> c.maxPoint,
     center |-> [x |-> windowWidth \div 2, y |-> windowHeight \div 2],
     furthestStore |-> q.furthestStore]

\* randomizeInput, line 161: assigning the new root to nextStep drops the
\* reference nextStep held into the previous tree.  The result is the set of
\* StepData objects of that tree which a shared_ptr still holds afterwards
\* (no pointer of the program reaches them any more).
discardPrevious(q) == DOMAIN Release(q.nodes, Null)

stepMarkEmpty_Never(h, cur) == h

\* lines 270-273
stepMarkEmpty(h, cur) ==
    IF Len(h[cur].pointSet) = 0 THEN [h EXCEPT ![cur].progress = SDP_Done] ELSE h

RECURSIVE stepPop_RewindRoot(_, _, _)
stepPop_RewindRoot(h, cur, pops) ==
    IF h[cur].progress # SDP_Done
    THEN [nodes |-> h, nextStep |-> cur, finished |-> FALSE, pops |-> pops]
    ELSE IF h[cur].prevStep = Null
         THEN [nodes |-> [h EXCEPT ![cur].progress = SDP_FirstIteration],
               nextStep |-> cur, finished |-> TRUE, pops |-> pops]
         ELSE LET h1 == [h EXCEPT ![cur].recursiveOne = Null, ![cur].recursiveTwo = Null]
              IN stepPop_RewindRoot(h1, h1[cur].prevStep, pops + 1)

\* lines 275-287: the while loop; finished is the `return false`
RECURSIVE stepPop(_, _, _)
stepPop(h, cur, pops) ==
    IF h[cur].progress # SDP_Done
    THEN [nodes |-> h, nextStep |-> cur, finished |-> FALSE, pops |-> pops]
    ELSE LET h1 == [h EXCEPT ![cur].recursiveOne = Null, ![cur].recursiveTwo = Null]
         IN IF h1[cur].prevStep = Null
            THEN [nodes |-> h1, nextStep |-> cur, finished |-> TRUE, pops |-> pops]
            ELSE stepPop(h1, h1[cur].prevStep, pops + 1)

\* lines 289-319: the visit of node cur (not Done).  On an empty point set
\* line 293 reads stepPoints[0] of an empty vector, which is undefined; the
\* model ends the call there and reports the visit with size 0.
stepVisitCore(q, h, cur, doneProgress) ==
    IF h[cur].pointSet = <<>>
    THEN [q EXCEPT !.ret = TRUE, !.visited = TRUE, !.node = cur,
                   !.progress = h[cur].progress, !.size = 0]
    ELSE
    LET stepPoints == h[cur].pointSet
        progress == h[cur].progress
        furthest == calculateFurthestPoint(h[cur].segmentA, h[cur].segmentB, stepPoints)
        first == progress = SDP_RecurseOne
        h1 == IF first
              THEN prepareNextRecursion(h, cur, h[cur].segmentA, h[cur].segmentB, furthest)
              ELSE h
        h2 == [h1 EXCEPT ![cur].progress =
                  IF progress = SDP_RecurseTwo THEN doneProgress ELSE SDP_RecurseTwo]
        next == IF progress = SDP_RecurseTwo THEN h1[cur].recursiveTwo
                ELSE h1[cur].recursiveOne
    IN [q EXCEPT !.nodes = Release(h2, next),
                 !.nextStep = next,
                 !.minPoint = stepPoints[1],
                 !.maxPoint = stepPoints[Len(stepPoints)],
                 !.hullPoints = IF first THEN Append(q.hullPoints, furthest) ELSE q.hullPoints,
                 !.furthestStore = IF first THEN furthest ELSE q.furthestStore,
                 !.ret = TRUE,
                 !.visited = TRUE,
                 !.furthest = furthest,
                 !.node = cur,
                 !.progress = progress,
                 !.size = Len(stepPoints),
                 !.prepared = first]

stepVisit_AlwaysPrepare(q, h, cur) ==
    LET stepPoints == h[cur].pointSet
        progress == h[cur].progress
        furthest == calculateFurthestPoint(h[cur].segmentA, h[cur].segmentB, stepPoints)
        first == progress = SDP_RecurseOne
        h1 == prepareNextRecursion(h, cur, h[cur].segmentA, h[cur].segmentB, furthest)
        h2 == [h1 EXCEPT ![cur].progress =
                  IF progress = SDP_RecurseTwo THEN SDP_Done ELSE SDP_RecurseTwo]
        next == IF progress = SDP_RecurseTwo THEN h1[cur].recursiveTwo
                ELSE h1[cur].recursiveOne
    IN [q EXCEPT !.nodes = Release(h2, next),
                 !.nextStep = next,
                 !.minPoint = stepPoints[1],
                 !.maxPoint = stepPoints[Len(stepPoints)],
                 !.hullPoints = IF first THEN Append(q.hullPoints, furthest) ELSE q.hullPoints,
                 !.furthestStore = IF first THEN furthest ELSE q.furthestStore,
                 !.ret = TRUE,
                 !.visited = TRUE,
                 !.furthest = furthest,
                 !.node = cur,
                 !.progress = progress,
                 !.size = Len(stepPoints),
                 !.prepared = TRUE]

stepVisit_NeverDone(q, h, cur) == stepVisitCore(q, h, cur, SDP_RecurseTwo)

stepVisit(q, h, cur) == stepVisitCore(q, h, cur, SDP_Done)

step_ReturnAfterPop(q) ==
    LET marked == Len(q.nodes[q.nextStep].pointSet) = 0
        p == stepPop(stepMarkEmpty(q.nodes, q.nextStep), q.nextStep, 0)
        q0 == [basePointList |-> q.basePointList, hullPoints |-> q.hullPoints,
               nextStep |-> p.nextStep, nodes |-> Release(p.nodes, p.nextStep),
               minPoint |-> q.minPoint, maxPoint |-> q.maxPoint, center |-> q.center,
               furthestStore |-> q.furthestStore,
               ret |-> FALSE, marked |-> marked, pops |-> p.pops, visited |-> FALSE,
               furthest |-> NoPoint, node |-> Null, progress |-> SDP_Done, size |-> 0,
               prepared |-> FALSE]
    IN IF p.finished THEN q0
       ELSE IF p.pops > 0 THEN [q0 EXCEPT !.ret = TRUE]
       ELSE stepVisit(q0, p.nodes, p.nextStep)

\* One call of step() on the QuickHull members q (with furthestStore).  The
\* result carries the members after the call, the returned value ret, and what
\* the call did: marked (line 272 ran), pops (moves of line 286), visited
\* (lines 290-317 ran), the local `furthest` of that visit, the node visited,
\* the progress and the size of the point set the visit found, and prepared
\* (line 300 ran).
step(q) ==
    LET marked == Len(q.nodes[q.nextStep].pointSet) = 0
        p == stepPop(stepMarkEmpty(q.nodes, q.nextStep), q.nextStep, 0)
        q0 == [basePointList |-> q.basePointList, hullPoints |-> q.hullPoints,
               nextStep |-> p.nextStep, nodes |-> Release(p.nodes, p.nextStep),
               minPoint |-> q.minPoint, maxPoint |-> q.maxPoint, center |-> q.center,
               furthestStore |-> q.furthestStore,
               ret |-> FALSE, marked |-> marked, pops |-> p.pops, visited |-> FALSE,
               furthest |-> NoPoint, node |-> Null, progress |-> SDP_Done, size |-> 0,
               prepared |-> FALSE]
    IN IF p.finished THEN q0 ELSE stepVisit(q0, p.nodes, p.nextStep)


\* ------------------------------------------------------------------------
\* Hull ordering and output
\* ------------------------------------------------------------------------

\* calculateAngleFromPoints(A, B) is atan2 of the difference A - B, scaled to
\* degrees.  The model keeps the difference vector; AngleLess compares the
\* atan2 values of two such vectors exactly.  atan2 ranges over (-180, 180]:
\* negative for y < 0, 0 for y = 0 and x >= 0 (atan2(0, 0) = 0), positive for
\* y > 0, 180 for y = 0 and x < 0.  (In the program's coordinate range two
\* different directions differ by more than 1e-4 degrees, more than the
\* rounding of the float result, so the float comparison is this one.)
calculateAngleFromPoints(A, B) == [x |-> A.x - B.x, y |-> A.y - B.y]

AngleClass(v) ==
    IF v.y < 0 THEN 0
    ELSE IF v.y = 0 /\ v.x >= 0 THEN 1
    ELSE IF v.y > 0 THEN 2
    ELSE 3

AngleLess(u, v) ==
    \/ AngleClass(u) < AngleClass(v)
    \/ /\ AngleClass(u) = AngleClass(v)
       /\ AngleClass(u) \in {0, 2}
       /\ (u.x * v.y) - (u.y * v.x) > 0

IndexOrders(n) == {p \in [1 .. n -> 1 .. n] : \A i, j \in 1 .. n : p[i] = p[j] => i = j}

\* sortPointsCounterclockwise: std::sort leaves the order of elements with
\* equal angles unspecified, so this is the set of the lists it can return
sortPointsCounterclockwise(list, c) ==
    LET n == Len(list)
        less(l, r) == AngleLess(calculateAngleFromPoints(c, l), calculateAngleFromPoints(c, r))
    IN {[i \in 1 .. n |-> list[p[i]]] :
           p \in {q \in IndexOrders(n) :
                     \A i, j \in 1 .. n : i < j => ~less(list[q[j]], list[q[i]])}}

\* operator<< of a non-negative int: its decimal digits
Digit(d) == <<"0", "1", "2", "3", "4", "5", "6", "7", "8", "9">>[d + 1]

RECURSIVE Decimal(_)
Decimal(n) == IF n < 10 THEN <<Digit(n)>> ELSE Append(Decimal(n \div 10), Digit(n % 10))

\* line 351: one record of points.txt
OutputLine(p) == Decimal(p.x) \o <<",">> \o Decimal(p.y) \o <<"\n">>

\* the write nothing value of `output`
NoOutput == [invoked |-> FALSE, opened |-> FALSE, lines |-> <<>>, error |-> FALSE]

outputHullPoints_SkipLast(hull, c) ==
    {[invoked |-> TRUE, opened |-> TRUE,
      lines |-> [i \in 1 .. (Len(sortedPoints) - 1) |-> OutputLine(sortedPoints[i])],
      error |-> FALSE] : sortedPoints \in sortPointsCounterclockwise(hull, c)}
    \cup {[invoked |-> TRUE, opened |-> FALSE, lines |-> <<>>, error |-> TRUE]}

\* outputHullPoints: what the call writes, for each list the sort can return
\* and each outcome of outfile.open
outputHullPoints(hull, c) ==
    {[invoked |-> TRUE, opened |-> TRUE,
      lines |-> [i \in 1 .. Len(sortedPoints) |-> OutputLine(sortedPoints[i])],
      error |-> FALSE] : sortedPoints \in sortPointsCounterclockwise(hull, c)}
    \cup {[invoked |-> TRUE, opened |-> FALSE, lines |-> <<>>, error |-> TRUE]}

\* ------------------------------------------------------------------------
\* State
\* ------------------------------------------------------------------------
VARIABLES
    basePointList,  \* QuickHull::basePointList
    hullPoints,     \* QuickHull::hullPoints
    nextStep,       \* QuickHull::nextStep, a node identity or Null
    nodes,          \* the StepData objects of the current computation
    center,         \* QuickHull::center
    minPoint,       \* QuickHull::minPoint
    maxPoint,       \* QuickHull::maxPoint
    furthestStore,  \* QuickHull::furthestStore
    continueLoop,   \* main's continueLoop
    pc,             \* main: "start" before line 421, "loop" inside the main loop
    restarts,       \* number of P key presses handled
    stepCalls,      \* number of step() calls made in the current computation
    lastStep,       \* what the most recent call of step() did
    selected,       \* the points calculateFurthestPoint returned in this computation
    output,         \* what the most recent handler wrote to points.txt and stdout
    partition,      \* a call of calcPointsOnRightSide on its own (PartitionSpec)
    history,        \* what each call of step() in the current computation did
    lastRandomize,  \* what the randomizeInput call of the most recent handler did
    again           \* number of step() calls made after the one that returned false

vars == <<basePointList, hullPoints, nextStep, nodes, center, minPoint, maxPoint,
          furthestStore, continueLoop, pc, restarts, stepCalls, lastStep, selected, output,
          partition, history, lastRandomize, again>>

NoStep == [called |-> FALSE, ret |-> FALSE, marked |-> FALSE, pops |-> 0,
           visited |-> FALSE, furthest |-> NoPoint, node |-> Null, progress |-> SDP_Done,
           size |-> 0, prepared |-> FALSE, appended |-> <<>>, kept |-> TRUE,
           created |-> {}, nonEmpty |-> {}]

NoRandomize == [called |-> FALSE, leaked |-> {}]

\* the members of the QuickHull object as one record
QH == [basePointList |-> basePointList, hullPoints |-> hullPoints,
       nextStep |-> nextStep, nodes |-> nodes, minPoint |-> minPoint,
       maxPoint |-> maxPoint, center |-> center, furthestStore |-> furthestStore]

NoPartition == [begin |-> NoPoint, end |-> NoPoint, list |-> <<>>, called |-> FALSE,
                right |-> <<>>, reverse |-> <<>>]

\* the constructor QuickHull() assigns no algorithm member
Constructor ==
    /\ basePointList = <<>>
    /\ hullPoints = <<>>
    /\ nextStep = Null
    /\ nodes = <<>>
    /\ center = NoPoint
    /\ minPoint = NoPoint
    /\ maxPoint = NoPoint
    /\ furthestStore = NoPoint
    /\ continueLoop = TRUE
    /\ pc = "start"
    /\ restarts = 0
    /\ stepCalls = 0
    /\ lastStep = NoStep
    /\ selected = {}
    /\ output = NoOutput
    /\ history = <<>>
    /\ lastRandomize = NoRandomize
    /\ again = 0

Init == Constructor /\ partition = NoPartition

\* every computation randomizeInput(pointCount) can set up
NewComputations == {newComputation(generated) : generated \in RawInputs}

\* a call QH.randomizeInput(pointCount) that computed c; leaked is what it
\* left of the previous tree
Randomized(c, leaked) ==
    LET r == randomizeInput(QH, c)
    IN
    /\ basePointList' = r.basePointList
    /\ hullPoints' = r.hullPoints
    /\ nextStep' = r.nextStep
    /\ nodes' = r.nodes
    /\ minPoint' = r.minPoint
    /\ maxPoint' = r.maxPoint
    /\ center' = r.center
    /\ furthestStore' = r.furthestStore
    /\ stepCalls' = 0
    /\ lastStep' = NoStep
    /\ selected' = {}
    /\ output' = NoOutput
    /\ history' = <<>>
    /\ lastRandomize' = [called |-> TRUE, leaked |-> leaked]
    /\ again' = 0

\* what a call of step() on the object q, with result s, did: the report of
\* step, the points the call appended to hullPoints (kept: the points that
\* were there are still there, in place), the StepData objects it created and
\* those of them that have a non-empty point set
StepReport(q, s) ==
    [called |-> TRUE, ret |-> s.ret, marked |-> s.marked, pops |-> s.pops,
     visited |-> s.visited, furthest |-> s.furthest, node |-> s.node,
     progress |-> s.progress, size |-> s.size, prepared |-> s.prepared,
     appended |-> SubSeq(s.hullPoints, Len(q.hullPoints) + 1, Len(s.hullPoints)),
     kept |-> /\ Len(q.hullPoints) <= Len(s.hullPoints)
              /\ \A i \in 1 .. Len(q.hullPoints) : s.hullPoints[i] = q.hullPoints[i],
     created |-> (DOMAIN s.nodes) \ (DOMAIN q.nodes),
     nonEmpty |-> {n \in (DOMAIN s.nodes) \ (DOMAIN q.nodes) : s.nodes[n].pointSet # <<>>}]

\* a call QH.step() with result s
Stepped(s) ==
    /\ hullPoints' = s.hullPoints
    /\ nextStep' = s.nextStep
    /\ nodes' = s.nodes
    /\ minPoint' = s.minPoint
    /\ maxPoint' = s.maxPoint
    /\ furthestStore' = s.furthestStore
    /\ stepCalls' = stepCalls + 1
    /\ lastStep' = StepReport(QH, s)
    /\ history' = Append(history, StepReport(QH, s))
    /\ selected' = IF s.visited THEN selected \cup {s.furthest} ELSE selected

\* main, lines 417-424
Start ==
    /\ pc = "start"
    /\ LET leaked == discardPrevious(QH)
       IN \E c \in NewComputations : Randomized(c, leaked)
    /\ continueLoop' = TRUE
    /\ pc' = "loop"
    /\ UNCHANGED <<restarts, partition>>

\* main, lines 441-445: the P key.  (The Q key writes result.png and Closed
\* ends main; neither touches the state below.)
KeyP ==
    /\ pc = "loop"
    /\ restarts < MaxRestarts
    /\ LET leaked == discardPrevious(QH)
       IN \E c \in NewComputations : Randomized(c, leaked)
    /\ continueLoop' = TRUE
    /\ restarts' = restarts + 1
    /\ UNCHANGED <<pc, partition>>

\* main, lines 456-479: one iteration of the main loop after the events:
\* step(), then render (which only reads the object), then outputHullPoints
\* when step() returned false; or the idle sleep of line 478
Frame ==
    /\ pc = "loop"
    /\ IF continueLoop
       THEN LET s == step(QH)
            IN /\ continueLoop' = s.ret
               /\ Stepped(s)
               /\ IF s.ret
                  THEN output' = NoOutput
                  ELSE output' \in outputHullPoints(s.hullPoints, center)
       ELSE /\ output' = NoOutput
            /\ UNCHANGED <<hullPoints, nextStep, nodes, minPoint, maxPoint, furthestStore,
                           continueLoop, stepCalls, lastStep, selected, history>>
    /\ lastRandomize' = NoRandomize
    /\ UNCHANGED <<basePointList, center, pc, restarts, partition, again>>

Next == Start \/ KeyP \/ Frame

Spec == Init /\ [][Next]_vars

\* ------------------------------------------------------------------------
\* QuickHull driven by a caller that keeps calling step() after it has
\* returned false (main does not: it tests continueLoop, lines 456 and 482)
\* ------------------------------------------------------------------------
MaxExtraCalls == 2

\* one more call of step() on the finished computation
StepAgain ==
    /\ pc = "loop"
    /\ ~continueLoop
    /\ again < MaxExtraCalls
    /\ Stepped(step(QH))
    /\ again' = again + 1
    /\ output' = NoOutput
    /\ lastRandomize' = NoRandomize
    /\ UNCHANGED <<basePointList, center, continueLoop, pc, restarts, partition>>

CallerNext == Start \/ Frame \/ StepAgain

CallerSpec == Init /\ [][CallerNext]_vars

\* ------------------------------------------------------------------------
\* calcPointsOnRightSide on its own: any segment, any list
\* ------------------------------------------------------------------------
MaxListLen == 3

PointLists == UNION {[1 .. n -> Points] : n \in 0 .. MaxListLen}

PartitionInit ==
    /\ Constructor
    /\ partition \in [begin : Points, end : Points, list : PointLists, called : {FALSE},
                      right : {<<>>}, reverse : {<<>>}]

\* the two calls prepareNextRecursion would make for the segment and its reverse
PartitionCall ==
    /\ ~partition.called
    /\ partition' = [partition EXCEPT
           !.called = TRUE,
           !.right = calcPointsOnRightSide(partition.begin, partition.end, partition.list),
           !.reverse = calcPointsOnRightSide(partition.end, partition.begin, partition.list)]
    /\ UNCHANGED <<basePointList, hullPoints, nextStep, nodes, center, minPoint, maxPoint,
                   furthestStore, continueLoop, pc, restarts, stepCalls, lastStep, selected,
                   output, history, lastRandomize, again>>

PartitionSpec == PartitionInit /\ [][PartitionCall]_vars



\* ------------------------------------------------------------------------
\* Reference definitions used by the properties
\* ------------------------------------------------------------------------

\* the QuickHull object the constructor leaves
Constructed ==
    [basePointList |-> <<>>, hullPoints |-> <<>>, nextStep |-> Null, nodes |-> <<>>,
     minPoint |-> NoPoint, maxPoint |-> NoPoint, center |-> NoPoint,
     furthestStore |-> NoPoint]

Members(s) ==
    [basePointList |-> s.basePointList, hullPoints |-> s.hullPoints,
     nextStep |-> s.nextStep, nodes |-> s.nodes, minPoint |-> s.minPoint,
     maxPoint |-> s.maxPoint, center |-> s.center, furthestStore |-> s.furthestStore]

\* step() repeated until it returns false, at most fuel times (the driver of
\* lines 482-484); done tells whether the false was reached
RECURSIVE RunToEnd(_, _)
RunToEnd(q, fuel) ==
    LET s == step(q)
    IN IF ~s.ret THEN [q |-> Members(s), done |-> TRUE]
       ELSE IF fuel = 0 THEN [q |-> Members(s), done |-> FALSE]
       ELSE RunToEnd(Members(s), fuel - 1)

\* an independent run on the points of list: a new object, randomizeInput,
\* then step() until false
FreshRun(list) ==
    RunToEnd(randomizeInput(Constructed, newComputation(list)), 4 * Len(list) + 4)

IsPrefix(s, t) == Len(s) <= Len(t) /\ \A i \in 1 .. Len(s) : s[i] = t[i]

Range(s) == {s[i] : i \in 1 .. Len(s)}

\* at least 2 distinct points
TwoDistinct(list) == Cardinality(Range(list)) >= 2

\* all points on one line
Collinear(list) == \A a, b, c \in Range(list) : Determinant(a, b, c) = 0

\* p is not strictly inside the convex hull of the points of S: some line
\* through p and another point of S has all of S on one closed side
NotInterior(p, S) ==
    \/ S \subseteq {p}
    \/ \E q \in S \ {p} :
          \/ \A r \in S : Determinant(p, q, r) >= 0
          \/ \A r \in S : Determinant(p, q, r) <= 0

\* p is a vertex of the convex hull of S: some line through p has every other
\* point of S strictly on one side, or on the line and all on one side of p
IsVertex(p, S) ==
    \/ S \subseteq {p}
    \/ \E q \in S \ {p} :
          \A r \in S \ {p} :
              \/ Determinant(p, q, r) > 0
              \/ /\ Determinant(p, q, r) = 0
                 /\ ((r.x - p.x) * (q.x - p.x)) + ((r.y - p.y) * (q.y - p.y)) > 0

\* step() has returned false for the current computation
Finished == pc # "start" /\ ~continueLoop


\* the i-th point of the closed polygon s, indices wrapping around
Cyc(s, i) == s[((i - 1) % Len(s)) + 1]

Sign(n) == IF n > 0 THEN 1 ELSE IF n < 0 THEN -1 ELSE 0

\* the orientation signs of the consecutive edge pairs of the closed polygon s
TurnSigns(s) ==
    {Sign(Determinant(Cyc(s, i), Cyc(s, i + 1), Cyc(s, i + 2))) : i \in 1 .. Len(s)}

TurnsConsistently(s) == ~({1, -1} \subseteq TurnSigns(s))

\* every point of S is on the non-negative side of, or on, every edge of s
ContainsAll(s, S) ==
    \A i \in 1 .. Len(s) : \A p \in S : Determinant(Cyc(s, i), Cyc(s, i + 1), p) >= 0

\* the finalized hulls: the lists sortPointsCounterclockwise can return
FinalizedHulls == sortPointsCounterclockwise(hullPoints, center)

\* ------------------------------------------------------------------------
\* C2
\* ------------------------------------------------------------------------

\* C2 as claimed: once step() has returned false on an input with at least 2
\* distinct points, the hull points sorted by angle about center, traversed
\* as a closed polygon, never reverse their turning direction.
C2_ConvexFinalizedHull ==
    (Finished /\ TwoDistinct(basePointList)) =>
        \A s \in FinalizedHulls : TurnsConsistently(s)

\* ------------------------------------------------------------------------
\* C3
\* ------------------------------------------------------------------------

\* C3 as claimed: once step() has returned false, every input point is on the
\* non-negative side of, or on, every consecutive edge of the finalized hull.
C3_HullContainsInput ==
    Finished => \A s \in FinalizedHulls : ContainsAll(s, Range(basePointList))


\* ------------------------------------------------------------------------
\* C1
\* ------------------------------------------------------------------------

\* C1: on every input with at least 2 distinct points (d of them), the calls
\* of step() after randomizeInput reach one that returns false, and it is
\* at the latest call number 2d - 1: as long as no call has returned false,
\* fewer than 2d - 1 calls have been made.  (The main loop calls step() once
\* per frame while continueLoop holds, so the count grows until the false.)
C1_Termination ==
    (pc = "loop" /\ TwoDistinct(basePointList)) =>
        /\ continueLoop => stepCalls < (2 * Cardinality(Range(basePointList))) - 1
        /\ ~continueLoop => (lastStep.called /\ ~lastStep.ret)

C1_Witness ==
    /\ ~continueLoop
    /\ TwoDistinct(basePointList)
    /\ Len(basePointList) = MaxPointCount
    /\ Len(hullPoints) > 3
    /\ stepCalls = (2 * Cardinality(Range(basePointList))) - 1
    /\ lastStep.called /\ ~lastStep.ret


\* ------------------------------------------------------------------------
\* C4
\* ------------------------------------------------------------------------

\* the two initial extreme points: lexicographic min and max of the input
Extremes == {basePointList[1], basePointList[Len(basePointList)]}

\* C4: every point of hullPoints, at completion and at every moment before
\* it, is one of the two initial extreme points or a point
\* calculateFurthestPoint returned for a visited node, and none of them lies
\* strictly inside the convex hull of the input.
C4_SubsetMinimality ==
    pc = "loop" =>
        \A i \in 1 .. Len(hullPoints) :
            /\ hullPoints[i] \in Extremes \cup selected
            /\ NotInterior(hullPoints[i], Range(basePointList))

C4_Witness ==
    /\ Finished
    /\ Len(hullPoints) >= 3
    /\ hullPoints[3] \in selected
    /\ \E p \in Range(basePointList) : ~NotInterior(p, Range(basePointList))

\* ------------------------------------------------------------------------
\* C5
\* ------------------------------------------------------------------------

\* C5 as claimed: a step() call does exactly one of: marking an empty cursor
\* node Complete, popping Complete nodes, one visit; never two together.
C5_ExactlyOneOfThree ==
    lastStep.called =>
        \/ (lastStep.marked /\ lastStep.pops = 0 /\ ~lastStep.visited)
        \/ (~lastStep.marked /\ lastStep.pops > 0 /\ ~lastStep.visited)
        \/ (~lastStep.marked /\ lastStep.pops = 0 /\ lastStep.visited)

\* C5 amended: a step() call performs at most one visit and returns true
\* exactly when it performed it; the marking of an empty cursor node and the
\* pops happen in the same call, before the visit: a marking is always
\* followed by at least one pop, and the call that ends the computation does
\* no visit.
C5_MarkPopThenVisit ==
    lastStep.called =>
        /\ lastStep.ret <=> lastStep.visited
        /\ lastStep.marked => lastStep.pops >= 1
        /\ lastStep.visited <=> (lastStep.furthest # NoPoint)
        /\ lastStep.ret = continueLoop

C5_Witness ==
    /\ lastStep.called
    /\ lastStep.marked
    /\ lastStep.pops >= 2
    /\ lastStep.visited
    /\ lastStep.ret

\* ------------------------------------------------------------------------
\* C6
\* ------------------------------------------------------------------------

\* step() applied k times
RECURSIVE RunSteps(_, _)
RunSteps(q, k) == IF k = 0 THEN q ELSE RunSteps(Members(step(q)), k - 1)

\* C6: whatever happened before the randomizeInput call that began the
\* current computation, the computation starts with hullPoints holding just
\* the two extreme points and the cursor on a new root, and after any number
\* of step() calls its hullPoints, cursor and tree are those of an
\* independent run on the same points after the same number of calls; at
\* completion hullPoints and the finalized hulls are those of that run.
C6_HistoryIndependence ==
    pc = "loop" =>
        LET fresh == randomizeInput(Constructed, newComputation(basePointList))
            sameSteps == RunSteps(fresh, stepCalls)
            final == FreshRun(basePointList)
        IN /\ hullPoints = sameSteps.hullPoints
           /\ nextStep = sameSteps.nextStep
           /\ nodes = sameSteps.nodes
           /\ stepCalls = 0 =>
                 /\ hullPoints = <<basePointList[1], basePointList[Len(basePointList)]>>
                 /\ nextStep = Root
                 /\ nodes[Root].progress = SDP_FirstIteration
                 /\ DOMAIN nodes = {Root, <<1>>, <<2>>}
           /\ final.done
           /\ IsPrefix(hullPoints, final.q.hullPoints)
           /\ Finished =>
                 /\ hullPoints = final.q.hullPoints
                 /\ FinalizedHulls = sortPointsCounterclockwise(final.q.hullPoints, final.q.center)

C6_Witness ==
    /\ restarts >= 1
    /\ Finished
    /\ Len(hullPoints) >= 4
    /\ furthestStore \in Range(hullPoints)

\* ------------------------------------------------------------------------
\* C7
\* ------------------------------------------------------------------------

\* C7: when all input points lie on one line (at least 2 distinct points),
\* every child point set is empty, the third step() call returns false, and
\* hullPoints is exactly the two extreme points.
C7_CollinearInput ==
    (pc = "loop" /\ Collinear(basePointList) /\ TwoDistinct(basePointList)) =>
        /\ \A n \in (DOMAIN nodes) \ {Root} : nodes[n].pointSet = <<>>
        /\ hullPoints = <<basePointList[1], basePointList[Len(basePointList)]>>
        /\ stepCalls <= 3
        /\ (stepCalls = 3) <=> ~continueLoop

C7_Witness ==
    /\ Finished
    /\ Collinear(basePointList)
    /\ Cardinality(Range(basePointList)) >= 3
    /\ Len(basePointList) > Cardinality(Range(basePointList))
    /\ hullPoints = <<basePointList[1], basePointList[Len(basePointList)]>>

\* ------------------------------------------------------------------------
\* C8
\* ------------------------------------------------------------------------

\* the value of a digit character, -1 for any other character
DigitValue(ch) ==
    IF \E d \in 0 .. 9 : Digit(d) = ch THEN CHOOSE d \in 0 .. 9 : Digit(d) = ch ELSE -1

RECURSIVE ParseDecimal(_)
ParseDecimal(chars) ==
    IF Len(chars) = 1 THEN DigitValue(chars[1])
    ELSE (10 * ParseDecimal(SubSeq(chars, 1, Len(chars) - 1))) + DigitValue(chars[Len(chars)])

\* line is digits , digits newline
IsPointLine(line) ==
    /\ Len(line) >= 4
    /\ line[Len(line)] = "\n"
    /\ \E k \in 2 .. (Len(line) - 2) :
          /\ line[k] = ","
          /\ \A i \in (1 .. (Len(line) - 1)) \ {k} : DigitValue(line[i]) >= 0

\* the point a line "x,y\n" denotes
ParseLine(line) ==
    LET k == CHOOSE i \in 1 .. Len(line) : line[i] = ","
    IN [x |-> ParseDecimal(SubSeq(line, 1, k - 1)),
        y |-> ParseDecimal(SubSeq(line, k + 1, Len(line) - 1))]

\* the lines are one "x,y" line per entry of hull, in some order
OneLinePerEntry(lines, hull) ==
    /\ Len(lines) = Len(hull)
    /\ \A i \in 1 .. Len(lines) : IsPointLine(lines[i])
    /\ \A p \in Range(hull) :
          Cardinality({i \in 1 .. Len(lines) : ParseLine(lines[i]) = p})
              = Cardinality({i \in 1 .. Len(hull) : hull[i] = p})

\* C8 as claimed: outputHullPoints runs only after step() has returned false
\* for the current computation, and it then writes exactly one "x,y" line
\* per entry of hullPoints.
C8_OutputAfterFalse ==
    output.invoked =>
        /\ lastStep.called /\ ~lastStep.ret /\ ~continueLoop
        /\ OneLinePerEntry(output.lines, hullPoints)

\* C8 amended: outputHullPoints runs only after step() has returned false
\* for the current computation; when points.txt can be opened it writes
\* exactly one "x,y" line per entry of hullPoints, and when it cannot it
\* writes no line and reports the error.
C8_OutputAfterFalseIfOpened ==
    output.invoked =>
        /\ lastStep.called /\ ~lastStep.ret /\ ~continueLoop
        /\ output.opened => (OneLinePerEntry(output.lines, hullPoints) /\ ~output.error)
        /\ ~output.opened => (output.lines = <<>> /\ output.error)

C8_Witness ==
    /\ output.invoked
    /\ output.opened
    /\ restarts >= 1
    /\ Len(output.lines) >= 4

\* ------------------------------------------------------------------------
\* C9
\* ------------------------------------------------------------------------

\* C9 as claimed: a computation begun on fewer than 2 points is refused: no
\* hull is produced and the traversal is not entered.
C9_FailFast ==
    (pc = "loop" /\ Len(basePointList) < 2) =>
        /\ hullPoints = <<>>
        /\ ~lastStep.visited

\* ------------------------------------------------------------------------
\* C10
\* ------------------------------------------------------------------------

\* the orientation of p against the directed segment (a, b), as the cross
\* product of b - a and p - a
Orientation(a, b, p) == ((b.x - a.x) * (p.y - a.y)) - ((b.y - a.y) * (p.x - a.x))

\* r is the list of the elements of l that satisfy Keep, in the order of l
IsFilterOf(r, l, Keep(_)) ==
    LET kept == {i \in 1 .. Len(l) : Keep(l[i])}
        nth(k) == CHOOSE i \in kept : Cardinality({j \in kept : j <= i}) = k
    IN /\ Len(r) = Cardinality(kept)
       /\ \A k \in 1 .. Len(r) : r[k] = l[nth(k)]

\* C10: calcPointsOnRightSide(A, B, list) is the list of the points of list
\* with strictly negative orientation against (A, B) that equal neither A nor
\* B, in list order; the partitions for (A, B) and (B, A) are disjoint and a
\* point collinear with A and B is in neither.
C10_PartitionCorrect ==
    partition.called =>
        LET A == partition.begin
            B == partition.end
            KeepAB(p) == Orientation(A, B, p) < 0 /\ p # A /\ p # B
            KeepBA(p) == Orientation(B, A, p) < 0 /\ p # A /\ p # B
        IN /\ IsFilterOf(partition.right, partition.list, KeepAB)
           /\ IsFilterOf(partition.reverse, partition.list, KeepBA)
           /\ Range(partition.right) \cap Range(partition.reverse) = {}
           /\ \A p \in Range(partition.list) :
                 Orientation(A, B, p) = 0 =>
                     p \notin Range(partition.right) \cup Range(partition.reverse)

C10_Witness ==
    /\ partition.called
    /\ Len(partition.list) = MaxListLen
    /\ partition.begin # partition.end
    /\ partition.right # <<>>
    /\ partition.reverse # <<>>
    /\ \E p \in Range(partition.list) :
          /\ Orientation(partition.begin, partition.end, p) = 0
          /\ p # partition.begin /\ p # partition.end

\* ------------------------------------------------------------------------
\* C11
\* ------------------------------------------------------------------------

\* the step() calls of the current computation that visited node n
VisitsOf(n) == {i \in 1 .. Len(history) : history[i].visited /\ history[i].node = n}

\* the first visit finds SDP_FirstIteration (root) or SDP_RecurseOne
FirstVisit(r) == r.visited /\ r.progress \in {SDP_FirstIteration, SDP_RecurseOne}

SecondVisit(r) == r.visited /\ r.progress = SDP_RecurseTwo

\* the nodes below n that are in the heap
Below(n) ==
    {m \in DOMAIN nodes : Len(m) > Len(n) /\ SubSeq(m, 1, Len(n)) = n}

ExcludesEndpoints(n) ==
    \A p \in Range(nodes[n].pointSet) :
        ~(comparePoints(p, nodes[n].segmentA) \/ comparePoints(p, nodes[n].segmentB))

\* C12 as claimed: in every state, no node of the tree, the root included,
\* has in its pointSet a point equal to its segmentA or its segmentB.
C12_NoEndpointInPointSet ==
    pc = "loop" => \A n \in DOMAIN nodes : ExcludesEndpoints(n)

\* C12 amended: in every state, no node other than the root has in its
\* pointSet a point equal to its segmentA or segmentB (its points are strictly
\* on the negative side of its segment and are points of its parent); the
\* root's pointSet is the whole input and contains both its endpoints.
C12_NoEndpointBelowRoot ==
    pc = "loop" =>
        /\ \A n \in (DOMAIN nodes) \ {Root} :
              /\ ExcludesEndpoints(n)
              /\ \A p \in Range(nodes[n].pointSet) :
                    Determinant(nodes[n].segmentA, nodes[n].segmentB, p) < 0
              /\ nodes[n].prevStep \in DOMAIN nodes =>
                    Range(nodes[n].pointSet) \subseteq Range(nodes[nodes[n].prevStep].pointSet)
        /\ Root \in DOMAIN nodes
        /\ nodes[Root].pointSet = basePointList
        /\ nodes[Root].segmentA \in Range(nodes[Root].pointSet)
        /\ nodes[Root].segmentB \in Range(nodes[Root].pointSet)

C12_Witness ==
    /\ pc = "loop"
    /\ \E n \in DOMAIN nodes :
          /\ Len(n) >= 2
          /\ nodes[n].pointSet # <<>>
          /\ nodes[n].segmentA \in Range(basePointList)
          /\ Len(nodes[nodes[n].prevStep].pointSet) > Len(nodes[n].pointSet)

\* ------------------------------------------------------------------------
\* C13
\* ------------------------------------------------------------------------

\* the points the first k calls of step() appended, in order
RECURSIVE AppendedUpTo(_)
AppendedUpTo(k) == IF k = 0 THEN <<>> ELSE AppendedUpTo(k - 1) \o history[k].appended

\* C13 as claimed: every first visit, that of the root included, appends
\* its furthest point to hullPoints and no other call appends anything;
\* no call removes or changes a point that is there.
C13_OnePointPerVisitedNode ==
    \A i \in 1 .. Len(history) :
        /\ history[i].kept
        /\ FirstVisit(history[i]) => history[i].appended = <<history[i].furthest>>
        /\ ~FirstVisit(history[i]) => history[i].appended = <<>>

\* C13 amended: every node other than the root that step() visits
\* contributes exactly one point to hullPoints: its furthest point, appended
\* by its first visit.  The visits of the root, the second visits and the
\* calls that only mark and pop append nothing, and no call removes or
\* changes a point; hullPoints is the two extremes randomizeInput put there
\* followed by the furthest points of the first visits, in order.
C13_OnePointPerNodeBelowRoot ==
    pc = "loop" =>
        /\ \A i \in 1 .. Len(history) :
              LET r == history[i]
              IN /\ r.kept
                 /\ (FirstVisit(r) /\ r.node # Root) => r.appended = <<r.furthest>>
                 /\ ~(FirstVisit(r) /\ r.node # Root) => r.appended = <<>>
                 /\ r.visited => r.size >= 1
        /\ \A n \in {history[i].node : i \in 1 .. Len(history)} \ {Null, Root} :
              Cardinality({i \in VisitsOf(n) : history[i].appended # <<>>}) = 1
        /\ hullPoints = <<basePointList[1], basePointList[Len(basePointList)]>>
                             \o AppendedUpTo(Len(history))
        /\ Len(hullPoints) =
              2 + Cardinality({history[i].node : i \in 1 .. Len(history)} \ {Null, Root})

C13_Witness ==
    /\ Finished
    /\ Len(hullPoints) = 4
    /\ Cardinality(VisitsOf(Root)) = 2
    /\ \E i \in 1 .. Len(history) :
          /\ SecondVisit(history[i])
          /\ Len(history[i].node) = 2

\* ------------------------------------------------------------------------
\* C14
\* ------------------------------------------------------------------------

\* the node whose child n is
Parent(n) == SubSeq(n, 1, Len(n) - 1)

\* the step() calls of the current computation that called
\* prepareNextRecursion on node n
PreparesOf(n) == {i \in 1 .. Len(history) : history[i].prepared /\ history[i].node = n}

\* the step() calls after which a StepData object that was not there before
\* the call is at n
CreationsOf(n) == {i \in 1 .. Len(history) : n \in history[i].created}

\* C14 as claimed: the children of every node, the root included, are
\* created by the step() call that is the first visit of the node, not
\* before it, and by no other call.
C14_ChildrenCreatedByFirstVisit ==
    pc = "loop" =>
        \A n \in (DOMAIN nodes) \ {Root} :
            \E i \in 1 .. Len(history) :
                /\ FirstVisit(history[i])
                /\ history[i].node = Parent(n)
                /\ PreparesOf(Parent(n)) = {i}
                /\ CreationsOf(n) = {i}

\* C14 amended: the two children of a node other than the root are created
\* exactly once, by the step() call that is the first visit of the node, not
\* before it, and are not recreated or replaced by its second visit (which
\* finds the first child as the traversal left it, Done).  The children of
\* the root are created by randomizeInput, before any step() call, and no
\* step() call creates or replaces them.
C14_ChildrenCreatedOnce ==
    pc = "loop" =>
        /\ \A i \in 1 .. Len(history) :
              LET r == history[i]
              IN /\ r.prepared <=> (FirstVisit(r) /\ r.node # Root)
                 /\ r.created = IF r.prepared
                                 THEN {Append(r.node, 1), Append(r.node, 2)}
                                 ELSE {}
                 /\ r.prepared => VisitsOf(r.node) \cap (1 .. i) = {i}
        /\ \A n \in (DOMAIN nodes) \ {Root} :
              IF Parent(n) = Root
              THEN PreparesOf(Root) = {} /\ CreationsOf(n) = {}
              ELSE /\ Cardinality(PreparesOf(Parent(n))) = 1
                   /\ CreationsOf(n) = PreparesOf(Parent(n))
        /\ stepCalls = 0 => DOMAIN nodes = {Root, <<1>>, <<2>>}
        /\ SecondVisit(lastStep) =>
              /\ nodes[Append(lastStep.node, 1)].progress = SDP_Done
              /\ nodes[Append(lastStep.node, 2)].progress = SDP_RecurseOne

C14_Witness ==
    /\ SecondVisit(lastStep)
    /\ lastStep.node # Root
    /\ Cardinality(PreparesOf(lastStep.node)) = 1
    /\ Cardinality(VisitsOf(lastStep.node)) = 2
    /\ nodes[nextStep].pointSet # <<>>

\* ------------------------------------------------------------------------
\* C15
\* ------------------------------------------------------------------------

\* C15 as claimed: when randomizeInput begins a new computation, at whatever
\* moment of the traversal, no StepData object of the previous tree is still
\* held by a shared_ptr afterwards.
C15_PreviousTreeDiscarded ==
    lastRandomize.called => lastRandomize.leaked = {}

\* ------------------------------------------------------------------------
\* C16
\* ------------------------------------------------------------------------

\* every shared_ptr member of an object of the heap is null or holds an
\* object of the heap
NoDanglingPointer ==
    \A n \in DOMAIN nodes :
        /\ nodes[n].recursiveOne \in (DOMAIN nodes) \cup {Null}
        /\ nodes[n].recursiveTwo \in (DOMAIN nodes) \cup {Null}
        /\ nodes[n].prevStep \in (DOMAIN nodes) \cup {Null}

\* C16: in every run (its input is never empty), every visit of step() found
\* a non-empty point set, so that calculateFurthestPoint and the reads of
\* stepPoints[0] and stepPoints[size - 1] had an element to read; the cursor
\* is never null, the child a visit moved it into is a StepData object, and
\* the node the next call will visit, if it visits one, has a non-empty
\* point set too.
C16_PreconditionRespected ==
    pc = "loop" =>
        /\ Len(basePointList) >= 1
        /\ nextStep # Null
        /\ nextStep \in DOMAIN nodes
        /\ NoDanglingPointer
        /\ \A i \in 1 .. Len(history) :
              history[i].visited => (history[i].size >= 1 /\ history[i].node # Null)
        /\ lastStep.visited =>
              /\ nextStep \in {Append(lastStep.node, 1), Append(lastStep.node, 2)}
              /\ nodes[nextStep].prevStep = lastStep.node
        /\ LET p == stepPop(stepMarkEmpty(nodes, nextStep), nextStep, 0)
           IN /\ p.nextStep # Null
              /\ ~p.finished => nodes[p.nextStep].pointSet # <<>>

C16_Witness ==
    /\ lastStep.visited
    /\ lastStep.marked
    /\ lastStep.size >= 1
    /\ lastStep.node # Root
    /\ nodes[nextStep].pointSet = <<>>

\* ------------------------------------------------------------------------
\* C17
\* ------------------------------------------------------------------------

\* C17 as claimed: after every step() call that visited a node (first visit,
\* second visit, visits of the root, before or after a restart), furthestStore,
\* which render draws, is the furthest point that call computed.
C17_FurthestSnapshot ==
    lastStep.visited => furthestStore = lastStep.furthest

\* ------------------------------------------------------------------------
\* C18
\* ------------------------------------------------------------------------

\* the vertices of the convex hull of the input
HullVertices == {p \in Range(basePointList) : IsVertex(p, Range(basePointList))}

\* C18: on every input with at least 2 distinct points, when step() has
\* returned false the points of hullPoints are exactly the vertices of the
\* convex hull of the input (every vertex is there, no point inside the hull
\* or inside one of its edges is), and no point is there twice.
C18_ExactlyTheVertices ==
    (Finished /\ TwoDistinct(basePointList)) =>
        /\ Range(hullPoints) = HullVertices
        /\ Cardinality(Range(hullPoints)) = Len(hullPoints)

\* a triangle with a fourth input point inside one of its edges
C18_Witness ==
    /\ Finished
    /\ Len(hullPoints) = 3
    /\ \E p \in Range(basePointList) \ HullVertices :
          /\ NotInterior(p, Range(basePointList))
          /\ \E a, b \in HullVertices : a # b /\ Determinant(a, b, p) = 0

\* ------------------------------------------------------------------------
\* C19
\* ------------------------------------------------------------------------

\* the nodes of the current computation that were created with a non-empty
\* point set: the root, those of its children that randomizeInput made
\* non-empty, and those the step() calls made
NonEmptyNodes ==
    {Root}
    \cup {n \in {<<1>>, <<2>>} : newComputation(basePointList).nodes[n].pointSet # <<>>}
    \cup UNION {history[i].nonEmpty : i \in 1 .. Len(history)}

\* the nodes visited so far
VisitedNodes == {history[i].node : i \in {j \in 1 .. Len(history) : history[j].visited}}

\* the step() calls so far that returned true
TrueCalls == {i \in 1 .. Len(history) : history[i].ret}

\* C19: in any computation only nodes with a non-empty point set are
\* visited, none more than twice, and the calls that return true are the
\* visits; when step() has returned false every node created with a
\* non-empty point set has been visited exactly twice, and the number of
\* calls that returned true is 2 * (h - 1), h the length of hullPoints.
C19_TwoVisitsPerNode ==
    pc = "loop" =>
        /\ VisitedNodes \subseteq NonEmptyNodes
        /\ \A n \in VisitedNodes : Cardinality(VisitsOf(n)) <= 2
        /\ \A i \in 1 .. Len(history) :
              /\ history[i].ret <=> history[i].visited
              /\ history[i].visited => history[i].size >= 1
        /\ \A n \in DOMAIN nodes : nodes[n].pointSet = <<>> => VisitsOf(n) = {}
        /\ Finished =>
              /\ VisitedNodes = NonEmptyNodes
              /\ \A n \in NonEmptyNodes : Cardinality(VisitsOf(n)) = 2
              /\ Cardinality(TrueCalls) = 2 * (Len(hullPoints) - 1)
              /\ TrueCalls = 1 .. (Len(history) - 1)

C19_Witness ==
    /\ Finished
    /\ restarts >= 1
    /\ Len(hullPoints) = 4
    /\ Cardinality(TrueCalls) = 6
    /\ Cardinality(NonEmptyNodes) = 3
    /\ \E i \in 1 .. Len(history) : history[i].created # {} /\ history[i].nonEmpty = {}

\* ------------------------------------------------------------------------
\* C20
\* ------------------------------------------------------------------------

\* the progress of every StepData object of the heap
ProgressOf(h) == [n \in DOMAIN h |-> h[n].progress]

\* C20: a step() call made after step() has returned false, with no
\* randomizeInput in between, returns false again and leaves hullPoints,
\* the cursor (the root) and the progress of every node as they were.
C20_StepAfterFalse ==
    [][StepAgain =>
          /\ ~lastStep'.ret
          /\ ~lastStep'.visited
          /\ hullPoints' = hullPoints
          /\ nextStep = Root
          /\ nextStep' = nextStep
          /\ ProgressOf(nodes') = ProgressOf(nodes)
          /\ nodes' = nodes]_vars

C20_Witness ==
    /\ again = MaxExtraCalls
    /\ lastStep.called
    /\ ~lastStep.ret
    /\ Len(hullPoints) = 4
    /\ nextStep = Root
    /\ DOMAIN nodes = {Root}
    /\ nodes[Root].progress = SDP_Done

====
